---- MODULE Spec2Model ----
(***************************************************************************)
(* Model of the UART transport of the FOXSI/PADRE GUI                      *)
(* (src/src/uart_driver.py, class UART_Driver) and of the session that     *)
(* serialises exchanges over it.                                           *)
(*                                                                         *)
(* The serial library underneath the driver is the environment: every call *)
(* the driver makes on an open handle either succeeds or raises, and the   *)
(* model draws that outcome with \E.  A call on a handle that is not open, *)
(* or on the attribute self.conn before it was ever assigned, always       *)
(* raises.                                                                 *)
(***************************************************************************)
EXTENDS Integers, Sequences, FiniteSets, TLC

\* ------------------------------------------------------------------ bounds
\* Longest tx_buffer / largest rx_len drawn as an argument.
MaxLen == 2
\* Most bytes the inbound buffer of the port holds.
MaxRx == 2
\* Exchanges each worker thread runs.
MaxRuns == 1

\* ---------------------------------------------------------------- domains
Byte == {0, 1}
Threads == {1, 2}

\* Arguments handed to open_conn.  "None" stands for Python's None and
\* "Int5" for a value that is neither None nor a str.
PortNames == {"COM1", "COM_DOES_NOT_EXIST"}
PortArgs == PortNames \cup {"None", "Int5"}
ExistingPorts == {"COM1"}

RECURSIVE SeqsUpTo(_)
SeqsUpTo(n) ==
    IF n = 0 THEN {<<>>}
    ELSE LET S == SeqsUpTo(n - 1)
         IN  S \cup {Append(s, b) : s \in {t \in S : Len(t) = n - 1}, b \in Byte}

Min(a, b) == IF a < b THEN a ELSE b

Take(s, k) == SubSeq(s, 1, Min(k, Len(s)))
Drop(s, k) == SubSeq(s, Min(k, Len(s)) + 1, Len(s))

\* ------------------------------------------------------------------ state
VARIABLES
    comm_ports_list, \* self.comm_ports_list, filled by the constructor
    conn,            \* self.conn: "NoConn" (attribute never assigned),
                     \* "Closed" (a Serial object that is not open), "Open"
    held,            \* number of OS port handles the driver's Serial object holds
    rxq,             \* inbound bytes buffered on the open port
    last,            \* the last event on the driver: a call with its arguments,
                     \* what it returned and the calls it made on the handle,
                     \* or the arrival of a byte from the device
    pc,              \* position of each worker thread in Session.execute
    owner,           \* thread that holds the session's exclusive access, 0 if none
    runs,            \* exchanges each worker has started
    outcome          \* Outcome of each worker's last exchange

dvars == <<comm_ports_list, conn, held, rxq, last>>
svars == <<pc, owner, runs, outcome>>
vars == <<comm_ports_list, conn, held, rxq, last, pc, owner, runs, outcome>>

NoCall ==
    [op |-> "init", prevClose |-> FALSE, pre |-> "NoConn", preHeld |-> 0,
     preRx |-> <<>>, port |-> "", tx |-> <<>>, typed |-> TRUE, n |-> 0,
     stat |-> FALSE, val |-> 0, buf |-> <<>>, ports |-> <<>>,
     wrote |-> <<>>, calls |-> <<>>, raised |-> FALSE, returned |-> FALSE,
     postRx |-> <<>>, f1 |-> FALSE, w |-> FALSE, f2 |-> FALSE]

\* The record of a driver call entered in the current state.  pre, preHeld
\* and preRx are the state the call found, postRx the inbound buffer it
\* left; prevClose tells that the call before it was a close_conn; f1, w
\* and f2 are what the serial library answered to the call's first flush,
\* its main call (write, read, inWaiting, close, a lone flush) and its
\* second flush: TRUE when the call went through, FALSE when it raised or
\* was never made.
Call(name) ==
    [NoCall EXCEPT !.op = name, !.prevClose = (last.op = "close_conn"), !.pre = conn,
                   !.preHeld = held, !.preRx = rxq, !.postRx = rxq]

\* The handle can carry I/O: self.conn exists and is open.
Usable == conn = "Open"

\* UART_Driver.__init__: the ports found at construction; self.conn is not
\* assigned.
Init ==
    /\ comm_ports_list = <<"COM1">>
    /\ conn = "NoConn"
    /\ held = 0
    /\ rxq = <<>>
    /\ last = NoCall
    /\ pc = [t \in Threads |-> "idle"]
    /\ owner = 0
    /\ runs = [t \in Threads |-> 0]
    /\ outcome = [t \in Threads |-> "none"]

\* ---------------------------------------------------------- driver methods
\* getAvailablePorts: returns the stored list.
getAvailablePorts ==
    /\ last' = [Call("getAvailablePorts") EXCEPT
                  !.ports = comm_ports_list, !.returned = TRUE]
    /\ UNCHANGED <<comm_ports_list, conn, held, rxq>>

\* What serial.Serial(port=...) does with the argument: a name of a present
\* port opens, or is refused as busy or for lack of permission; a name of no
\* port is not found; None builds a Serial object without opening it; any
\* other non-string is rejected with ValueError.
OpenResults(port) ==
    IF port \in ExistingPorts THEN {"ok", "busy", "permission"}
    ELSE IF port \in PortNames THEN {"notfound"}
    ELSE IF port = "None" THEN {"unopened"}
    ELSE {"valueerror"}

\* open_conn as it would be with the Serial object assigned to self.conn
\* before the port is opened: a failed attempt leaves an unopened object.
open_conn_AssignBeforeOpen(port, res) ==
    /\ res \in OpenResults(port)
    /\ IF res = "ok"
       THEN /\ conn' = "Open"
            /\ held' = 1
            /\ rxq' = <<>>
            /\ last' = [Call("open_conn") EXCEPT
                          !.port = port, !.stat = TRUE, !.returned = TRUE,
                          !.postRx = <<>>, !.w = TRUE]
       ELSE /\ conn' = "Closed"
            /\ held' = 0
            /\ rxq' = <<>>
            /\ last' = [Call("open_conn") EXCEPT
                          !.port = port, !.stat = (res = "unopened"),
                          !.postRx = <<>>,
                          !.returned = (port \in PortNames \/ res = "unopened"),
                          !.raised = (port \notin PortNames /\ res # "unopened")]
    /\ UNCHANGED comm_ports_list

\* open_conn(port), lines 76-86.  When serial.Serial(...) returns, self.conn
\* is assigned the new object; a Serial object it replaces is dropped, which
\* closes it, so the driver holds the new handle only.  On an exception
\* self.conn is not assigned and the handler builds its message with
\* "..." + port + "...", which raises TypeError itself when port is not a
\* str.
open_conn(port, res) ==
    /\ res \in OpenResults(port)
    /\ IF res = "ok"
       THEN /\ conn' = "Open"
            /\ held' = 1
            /\ rxq' = <<>>
            /\ last' = [Call("open_conn") EXCEPT
                          !.port = port, !.stat = TRUE, !.returned = TRUE,
                          !.postRx = <<>>, !.w = TRUE]
       ELSE IF res = "unopened"
       THEN /\ conn' = "Closed"
            /\ held' = 0
            /\ rxq' = <<>>
            /\ last' = [Call("open_conn") EXCEPT
                          !.port = port, !.stat = TRUE, !.returned = TRUE,
                          !.postRx = <<>>, !.w = TRUE]
       ELSE /\ UNCHANGED <<conn, held, rxq>>
            /\ last' = [Call("open_conn") EXCEPT
                          !.port = port, !.stat = FALSE,
                          !.returned = (port \in PortNames),
                          !.raised = (port \notin PortNames)]
    /\ UNCHANGED comm_ports_list

\* close_conn as it would be without its try/except: the AttributeError of
\* a driver that was never opened reaches the caller.
close_conn_NoTry(ok) ==
    /\ IF conn = "Open" /\ ok
       THEN /\ conn' = "Closed"
            /\ held' = 0
            /\ rxq' = <<>>
       ELSE UNCHANGED <<conn, held, rxq>>
    /\ last' = [Call("close_conn") EXCEPT
                  !.w = (conn = "Closed" \/ (conn = "Open" /\ ok)),
                  !.stat = (conn = "Closed" \/ (conn = "Open" /\ ok)),
                  !.calls = <<[c |-> "close",
                               ok |-> (conn = "Closed" \/ (conn = "Open" /\ ok))]>>,
                  !.postRx = IF conn = "Open" /\ ok THEN <<>> ELSE rxq,
                  !.returned = (conn = "Closed" \/ (conn = "Open" /\ ok)),
                  !.raised = ~(conn = "Closed" \/ (conn = "Open" /\ ok))]
    /\ UNCHANGED comm_ports_list

\* close_conn, lines 93-96.  self.conn.close() raises AttributeError when
\* self.conn was never assigned, does nothing on a Serial object that is not
\* open, and on an open one either closes it or raises before the object is
\* marked closed.  Every exception is swallowed.
close_conn(ok) ==
    /\ IF conn = "Open" /\ ok
       THEN /\ conn' = "Closed"
            /\ held' = 0
            /\ rxq' = <<>>
       ELSE UNCHANGED <<conn, held, rxq>>
    /\ last' = [Call("close_conn") EXCEPT
                  !.w = (conn = "Closed" \/ (conn = "Open" /\ ok)),
                  !.stat = (conn = "Closed" \/ (conn = "Open" /\ ok)),
                  !.calls = <<[c |-> "close",
                               ok |-> (conn = "Closed" \/ (conn = "Open" /\ ok))]>>,
                  !.postRx = IF conn = "Open" /\ ok THEN <<>> ELSE rxq,
                  !.returned = TRUE]
    /\ UNCHANGED comm_ports_list

\* One flushOutput attempt of clear_tx_buffer, lines 103-106: the entry it
\* leaves in the call log.  It raises unless the handle is usable and the
\* flush goes through; the exception is swallowed.
TxFlush(ok) == [c |-> "flushOutput", ok |-> (Usable /\ ok)]

\* clear_tx_buffer, lines 98-106.
clear_tx_buffer(ok) ==
    /\ last' = [Call("clear_tx_buffer") EXCEPT
                  !.w = (Usable /\ ok),
                  !.stat = (Usable /\ ok),
                  !.calls = <<TxFlush(ok)>>, !.returned = TRUE]
    /\ UNCHANGED <<comm_ports_list, conn, held, rxq>>

\* clear_rx_buffer, lines 108-116: flushInput discards the buffered inbound
\* bytes; an exception is swallowed.
clear_rx_buffer(ok) ==
    /\ rxq' = IF Usable /\ ok THEN <<>> ELSE rxq
    /\ last' = [Call("clear_rx_buffer") EXCEPT
                  !.w = (Usable /\ ok),
                  !.postRx = IF Usable /\ ok THEN <<>> ELSE rxq,
                  !.stat = (Usable /\ ok),
                  !.calls = <<[c |-> "flushInput", ok |-> (Usable /\ ok)]>>,
                  !.returned = TRUE]
    /\ UNCHANGED <<comm_ports_list, conn, held>>

\* send_bytes's calls as they would be without the flush before the write.
SendCallsNoFirstFlush(typed, f1, w, f2) ==
    LET wrote == Usable /\ typed /\ w
    IN  IF wrote
        THEN <<[c |-> "write", ok |-> TRUE], TxFlush(f2)>>
        ELSE <<[c |-> "write", ok |-> FALSE]>>

\* The calls send_bytes makes, lines 128-134: clear_tx_buffer, write,
\* clear_tx_buffer.  A write that raises skips the second flush.  write
\* raises on a handle that is not usable, on a tx_buffer that is no byte
\* sequence (typed = FALSE), or when the device fails (w = FALSE).
SendCalls(typed, f1, w, f2) ==
    LET wrote == Usable /\ typed /\ w
    IN  IF wrote
        THEN <<TxFlush(f1), [c |-> "write", ok |-> TRUE], TxFlush(f2)>>
        ELSE <<TxFlush(f1), [c |-> "write", ok |-> FALSE]>>

\* send_bytes as it would be if clear_tx_buffer let a flush error through:
\* a failed first flush ends the try block before the write.
send_bytes_AbortOnFlushFailure(tx, typed, f1, w, f2) ==
    LET flushed == Usable /\ f1
        wrote == flushed /\ typed /\ w /\ f2
    IN  /\ last' = [Call("send_bytes") EXCEPT
                      !.tx = tx, !.typed = typed,
                      !.f1 = flushed, !.w = (flushed /\ typed /\ w),
                      !.f2 = wrote,
                      !.stat = wrote,
                      !.wrote = IF flushed /\ typed /\ w THEN tx ELSE <<>>,
                      !.calls = IF flushed THEN SendCalls(typed, f1, w, f2)
                                ELSE <<TxFlush(f1)>>,
                      !.returned = TRUE]
        /\ UNCHANGED <<comm_ports_list, conn, held, rxq>>

\* send_bytes(tx_buffer): True iff nothing raised out of the try block, i.e.
\* iff the write went through.
send_bytes(tx, typed, f1, w, f2) ==
    LET wrote == Usable /\ typed /\ w
    IN  /\ last' = [Call("send_bytes") EXCEPT
                      !.tx = tx, !.typed = typed,
                      !.f1 = (Usable /\ f1), !.w = wrote, !.f2 = (wrote /\ f2),
                      !.stat = wrote,
                      !.wrote = IF wrote THEN tx ELSE <<>>,
                      !.calls = SendCalls(typed, f1, w, f2),
                      !.returned = TRUE]
        /\ UNCHANGED <<comm_ports_list, conn, held, rxq>>

\* What self.conn.read(rx_len) hands back when it does not raise: the bytes
\* that arrived before the 0.2 s timeout, at most rx_len of them.
ReadResult(n) == Take(rxq, n)

\* read_bytes as it would be with rx_stat = True in the except branch.
read_bytes_TrueOnError(n, typed, ok) ==
    LET got == Usable /\ typed /\ ok
    IN  /\ rxq' = IF got THEN Drop(rxq, n) ELSE rxq
        /\ last' = [Call("read_bytes") EXCEPT
                      !.n = n, !.typed = typed,
                      !.w = got,
                      !.postRx = IF got THEN Drop(rxq, n) ELSE rxq,
                      !.stat = TRUE,
                      !.buf = IF got THEN ReadResult(n) ELSE <<>>,
                      !.calls = <<[c |-> "read", ok |-> got]>>,
                      !.returned = TRUE]
        /\ UNCHANGED <<comm_ports_list, conn, held>>

\* read_bytes as it would be if it closed the port after a read that came
\* back short or raised.
read_bytes_CloseOnShortRead(n, typed, ok) ==
    LET got == Usable /\ typed /\ ok
        short == ~got \/ Len(ReadResult(n)) < n
    IN  /\ rxq' = IF short THEN <<>> ELSE Drop(rxq, n)
        /\ conn' = IF short /\ conn = "Open" THEN "Closed" ELSE conn
        /\ held' = IF short THEN 0 ELSE held
        /\ last' = [Call("read_bytes") EXCEPT
                      !.n = n, !.typed = typed,
                      !.w = got,
                      !.postRx = IF short THEN <<>> ELSE Drop(rxq, n),
                      !.stat = got,
                      !.buf = IF got THEN ReadResult(n) ELSE <<>>,
                      !.calls = <<[c |-> "read", ok |-> got]>>,
                      !.returned = TRUE]
        /\ UNCHANGED comm_ports_list

\* read_bytes(rx_len), lines 146-155: rx_stat is set True whenever read
\* returned, however many bytes it returned; when read raises rx_buf is
\* still the empty list.
read_bytes(n, typed, ok) ==
    LET got == Usable /\ typed /\ ok
    IN  /\ rxq' = IF got THEN Drop(rxq, n) ELSE rxq
        /\ last' = [Call("read_bytes") EXCEPT
                      !.n = n, !.typed = typed,
                      !.w = got,
                      !.postRx = IF got THEN Drop(rxq, n) ELSE rxq,
                      !.stat = got,
                      !.buf = IF got THEN ReadResult(n) ELSE <<>>,
                      !.calls = <<[c |-> "read", ok |-> got]>>,
                      !.returned = TRUE]
        /\ UNCHANGED <<comm_ports_list, conn, held>>

\* get_unread_bytes as it would be with 0 returned from the except branch.
get_unread_bytes_ZeroOnError(ok) ==
    /\ last' = [Call("get_unread_bytes") EXCEPT
                  !.w = (Usable /\ ok),
                  !.stat = (Usable /\ ok),
                  !.val = IF Usable /\ ok THEN Len(rxq) ELSE 0,
                  !.calls = <<[c |-> "inWaiting", ok |-> (Usable /\ ok)]>>,
                  !.returned = TRUE]
    /\ UNCHANGED <<comm_ports_list, conn, held, rxq>>

\* get_unread_bytes, lines 162-166: inWaiting(), or -1 when it raises.
get_unread_bytes(ok) ==
    /\ last' = [Call("get_unread_bytes") EXCEPT
                  !.w = (Usable /\ ok),
                  !.stat = (Usable /\ ok),
                  !.val = IF Usable /\ ok THEN Len(rxq) ELSE -1,
                  !.calls = <<[c |-> "inWaiting", ok |-> (Usable /\ ok)]>>,
                  !.returned = TRUE]
    /\ UNCHANGED <<comm_ports_list, conn, held, rxq>>

\* The instrument puts a byte on the line; the open port buffers it.
DeviceSend(b) ==
    /\ held = 1
    /\ Len(rxq) < MaxRx
    /\ rxq' = Append(rxq, b)
    /\ last' = [Call("device") EXCEPT !.postRx = Append(rxq, b)]
    /\ UNCHANGED <<comm_ports_list, conn, held>>

\* What the serial library can answer to the calls of one driver method: on
\* a handle that is not usable every call raises, and the second flush of
\* send_bytes is only made after a write that went through.
Answers == IF Usable THEN BOOLEAN ELSE {FALSE}
SendAnswers(typed) ==
    {e \in Answers \X Answers \X Answers : e[3] => (typed /\ e[2])}

\* ------------------------------------------- the driver called by one thread
GetAvailablePorts == getAvailablePorts /\ UNCHANGED svars
OpenConn == \E port \in PortArgs : \E res \in OpenResults(port) :
                open_conn(port, res) /\ UNCHANGED svars
CloseConn == \E ok \in Answers : close_conn(ok) /\ UNCHANGED svars
ClearTxBuffer == \E ok \in Answers : clear_tx_buffer(ok) /\ UNCHANGED svars
ClearRxBuffer == \E ok \in Answers : clear_rx_buffer(ok) /\ UNCHANGED svars
SendBytes == \E tx \in SeqsUpTo(MaxLen) : \E typed \in BOOLEAN :
                \E e \in SendAnswers(typed) :
                    send_bytes(tx, typed, e[1], e[2], e[3]) /\ UNCHANGED svars
ReadBytes == \E n \in 0..MaxLen : \E typed \in BOOLEAN : \E ok \in Answers :
                read_bytes(n, typed, ok) /\ UNCHANGED svars
GetUnreadBytes == \E ok \in Answers : get_unread_bytes(ok) /\ UNCHANGED svars
Arrive == \E b \in Byte : DeviceSend(b) /\ UNCHANGED svars

Next ==
    \/ GetAvailablePorts
    \/ OpenConn
    \/ CloseConn
    \/ ClearTxBuffer
    \/ ClearRxBuffer
    \/ SendBytes
    \/ ReadBytes
    \/ GetUnreadBytes
    \/ Arrive

Spec == Init /\ [][Next]_vars

\* ------------------------------------------------ the session over the driver
\* Session.execute(Command), run by the dispatcher's worker threads.  The
\* session's code is not among the source files; its steps are those of the
\* design (check the connection, take exclusive access, flush both buffers,
\* send, read the expected length, decode, release), and every transport
\* step is a call of the driver method above.

\* The dispatcher hands a Command to worker t.
Submit(t) ==
    /\ pc[t] = "idle"
    /\ runs[t] < MaxRuns
    /\ runs' = [runs EXCEPT ![t] = @ + 1]
    /\ pc' = [pc EXCEPT ![t] = "check"]
    /\ outcome' = [outcome EXCEPT ![t] = "none"]
    /\ UNCHANGED <<comm_ports_list, conn, held, rxq, last, owner>>

\* Step 1: reject with NotConnected unless the connection is Open.
Check(t) ==
    /\ pc[t] = "check"
    /\ IF conn = "Open"
       THEN /\ pc' = [pc EXCEPT ![t] = "acquire"]
            /\ UNCHANGED outcome
       ELSE /\ pc' = [pc EXCEPT ![t] = "idle"]
            /\ outcome' = [outcome EXCEPT ![t] = "NotConnected"]
    /\ UNCHANGED <<comm_ports_list, conn, held, rxq, last, owner, runs>>

\* Step 2 as it would be without the wait: the worker goes on although
\* another exchange holds the wire.
AcquireWithoutWaiting(t) ==
    /\ pc[t] = "acquire"
    /\ owner' = t
    /\ pc' = [pc EXCEPT ![t] = "flushTx"]
    /\ UNCHANGED <<comm_ports_list, conn, held, rxq, last, runs, outcome>>

\* Step 2: take exclusive access to the wire, waiting while another
\* exchange holds it.
Acquire(t) ==
    /\ pc[t] = "acquire"
    /\ owner = 0
    /\ owner' = t
    /\ pc' = [pc EXCEPT ![t] = "flushTx"]
    /\ UNCHANGED <<comm_ports_list, conn, held, rxq, last, runs, outcome>>

\* Step 3: flush both buffers; a flush that fails does not stop the exchange.
FlushTx(t) ==
    /\ pc[t] = "flushTx"
    /\ \E ok \in Answers : clear_tx_buffer(ok)
    /\ pc' = [pc EXCEPT ![t] = "flushRx"]
    /\ UNCHANGED <<owner, runs, outcome>>

FlushRx(t) ==
    /\ pc[t] = "flushRx"
    /\ \E ok \in Answers : clear_rx_buffer(ok)
    /\ pc' = [pc EXCEPT ![t] = "send"]
    /\ UNCHANGED <<owner, runs, outcome>>

\* Step 4: send the encoded Command; on failure release and return
\* SendFailure.
Send(t) ==
    /\ pc[t] = "send"
    /\ \E tx \in SeqsUpTo(1) : \E e \in SendAnswers(TRUE) :
           send_bytes(tx, TRUE, e[1], e[2], e[3])
    /\ IF last'.stat
       THEN /\ pc' = [pc EXCEPT ![t] = "read"]
            /\ UNCHANGED <<owner, outcome>>
       ELSE /\ pc' = [pc EXCEPT ![t] = "idle"]
            /\ owner' = 0
            /\ outcome' = [outcome EXCEPT ![t] = "SendFailure"]
    /\ UNCHANGED runs

\* Step 5: read the expected response length; on a timeout (fewer bytes than
\* asked for) or an error release and return ReadFailure.
Read(t) ==
    /\ pc[t] = "read"
    /\ \E n \in 1..MaxLen : \E ok \in Answers : read_bytes(n, TRUE, ok)
    /\ IF last'.stat /\ Len(last'.buf) = last'.n
       THEN /\ pc' = [pc EXCEPT ![t] = "decode"]
            /\ UNCHANGED <<owner, outcome>>
       ELSE /\ pc' = [pc EXCEPT ![t] = "idle"]
            /\ owner' = 0
            /\ outcome' = [outcome EXCEPT ![t] = "ReadFailure"]
    /\ UNCHANGED runs

\* Steps 6 and 7: decode (the codec is opaque: it yields a Packet or a
\* DecodeFailure), release and return.
Decode(t) ==
    /\ pc[t] = "decode"
    /\ \E o \in {"Packet", "DecodeFailure"} :
           outcome' = [outcome EXCEPT ![t] = o]
    /\ owner' = 0
    /\ pc' = [pc EXCEPT ![t] = "idle"]
    /\ UNCHANGED <<comm_ports_list, conn, held, rxq, last, runs>>

\* The operator's thread opens and closes the port while workers run.
OperatorOpen == \E res \in OpenResults("COM1") :
                    open_conn("COM1", res) /\ UNCHANGED svars
OperatorClose == \E ok \in Answers : close_conn(ok) /\ UNCHANGED svars

Worker ==
    \E t \in Threads :
        \/ Submit(t)
        \/ Check(t)
        \/ Acquire(t)
        \/ FlushTx(t)
        \/ FlushRx(t)
        \/ Send(t)
        \/ Read(t)
        \/ Decode(t)

NextSession ==
    \/ Worker
    \/ OperatorOpen
    \/ OperatorClose
    \/ Arrive

SpecSession == Init /\ [][NextSession]_vars

\* ------------------------------------------------------------------ claims
NotOpen == {"NoConn", "Closed"}

\* Some entry of the call log is a write that went through.
WriteWentThrough == \E i \in 1..Len(last.calls) :
                        last.calls[i].c = "write" /\ last.calls[i].ok

\* C1: a read_bytes(rx_len) on an Open connection that gets fewer than rx_len
\* bytes before the timeout returns rx_stat = False; rx_stat = True is
\* returned only when all rx_len bytes were read.
C1_ShortReadReportsFailure ==
    (last.op = "read_bytes" /\ last.pre = "Open" /\ last.typed)
        => /\ Len(last.buf) < last.n => ~last.stat
           /\ last.stat => Len(last.buf) = last.n

\* A worker is inside its exchange: it holds the wire and has transport
\* calls under way.
InExchange(t) == pc[t] \in {"flushTx", "flushRx", "send", "read", "decode"}

\* C2: of the exchanges submitted concurrently at most one is in flight: no
\* worker is inside its exchange while another one is, and the worker inside
\* it is the one holding the exclusive access.
C2_OneExchangeInFlight ==
    \A t \in Threads :
        InExchange(t) => /\ owner = t
                         /\ \A u \in Threads \ {t} : ~InExchange(u)

\* C2 witness: one worker is reading its response while the other, submitted
\* meanwhile on an Open connection, waits for the wire.
C2_Witness ==
    \E t \in Threads : \E u \in Threads \ {t} :
        pc[t] = "read" /\ pc[u] = "acquire"

C4_FlushWriteFlush ==
    last.op = "send_bytes" =>
        LET cs == last.calls
        IN  /\ Len(cs) \in 2..3
            /\ \A i \in 1..Len(cs) :
                   cs[i].c = "write" =>
                       /\ i > 1 /\ cs[i - 1].c = "flushOutput"
                       /\ cs[i].ok => (i < Len(cs) /\ cs[i + 1].c = "flushOutput")
            /\ last.stat =>
                   [i \in 1..Len(cs) |-> cs[i].c]
                       = <<"flushOutput", "write", "flushOutput">>

\* C4 witness: a send_bytes that returned True after its three calls.
C4_Witness ==
    /\ last.op = "send_bytes"
    /\ last.stat
    /\ Len(last.calls) = 3
    /\ Len(last.tx) > 0

\* C5: on a connection that is not Open send_bytes returns False and
\* read_bytes returns (False, []), and no byte is written or taken; on an
\* Open connection send_bytes returns False when the write raises.
C5_NotOpenFails ==
    /\ (last.op = "send_bytes" /\ last.pre \in NotOpen)
           => /\ last.returned /\ ~last.raised
              /\ ~last.stat
              /\ last.wrote = <<>>
              /\ ~WriteWentThrough
    /\ (last.op = "read_bytes" /\ last.pre \in NotOpen)
           => /\ last.returned /\ ~last.raised
              /\ ~last.stat
              /\ last.buf = <<>>
              /\ last.postRx = last.preRx
    /\ (last.op = "send_bytes" /\ last.pre = "Open" /\ ~WriteWentThrough)
           => (~last.stat /\ last.wrote = <<>>)

\* C5 witness: a read_bytes asking for bytes on a connection closed by the
\* close_conn just before it.
C5_Witness ==
    /\ last.op = "read_bytes"
    /\ last.pre = "Closed"
    /\ last.prevClose
    /\ last.n > 0
    /\ last.typed

C7_NoUncaughtException ==
    last.op \notin {"init", "device"} => (last.returned /\ ~last.raised)

\* C8: read_bytes, send_bytes, clear_tx_buffer, clear_rx_buffer and
\* get_unread_bytes never change the connection state or the handle: a step
\* that changes either is an open_conn or a close_conn.
C8_OnlyOpenAndCloseChangeConnection ==
    [][(conn' # conn \/ held' # held)
           => (last'.op \in {"open_conn", "close_conn"} /\ last'.pre = conn)]_vars

\* C8 witness: a read on an Open connection came back short (a timeout) and
\* the connection is still Open.
C8_Witness ==
    /\ last.op = "read_bytes"
    /\ last.pre = "Open"
    /\ last.w
    /\ Len(last.buf) < last.n
    /\ conn = "Open"
    /\ held = 1

\* C9 as claimed: get_unread_bytes returns -1 when the connection is not
\* Open, and a count >= 0 of the buffered bytes whenever it is Open.
C9_CountWheneverOpen ==
    last.op = "get_unread_bytes" =>
        /\ last.pre \in NotOpen => last.val = -1
        /\ last.pre = "Open" => (last.val >= 0 /\ last.val = Len(last.preRx))

\* C9 amended: get_unread_bytes never raises; it returns -1 when the
\* connection is not Open or when the query raises on an Open connection,
\* and otherwise the number of buffered inbound bytes, consuming none.
C9_CountUnlessQueryRaises ==
    last.op = "get_unread_bytes" =>
        /\ last.returned /\ ~last.raised
        /\ last.postRx = last.preRx
        /\ (last.pre \in NotOpen \/ ~last.w) => last.val = -1
        /\ (last.pre = "Open" /\ last.w)
               => (last.val >= 0 /\ last.val = Len(last.preRx))

\* C9 witness: get_unread_bytes counted a buffer that is not empty.
C9_Witness ==
    /\ last.op = "get_unread_bytes"
    /\ last.pre = "Open"
    /\ last.val > 0
    /\ rxq = last.preRx

\* C10: a flush that fails does not abort a send: when the write goes
\* through send_bytes has written all of tx_buffer and returns True whatever
\* the two flushes did, and it returns True only then; clear_tx_buffer and
\* clear_rx_buffer always return.
C10_FlushFailureDoesNotAbortSend ==
    /\ last.op = "send_bytes" =>
           /\ last.stat <=> WriteWentThrough
           /\ last.stat => last.wrote = last.tx
           /\ (last.pre = "Open" /\ last.typed /\ Len(last.calls) < 3)
                  => (last.calls[Len(last.calls)].c = "write")
    /\ last.op \in {"clear_tx_buffer", "clear_rx_buffer"} =>
           (last.returned /\ ~last.raised)

\* C10 witness: a send_bytes returned True although both of its flushes
\* failed.
C10_Witness ==
    /\ last.op = "send_bytes"
    /\ last.stat
    /\ ~last.f1
    /\ ~last.f2
    /\ last.wrote = last.tx
    /\ Len(last.tx) > 0

====
